---- MODULE Spec2Model ----
(***************************************************************************)
(* Model of neuronav's graph-topology registry (envs/graph_structures.py)  *)
(* and of the episode driver run_episode (utils.py).                       *)
(*                                                                         *)
(* Conventions.                                                            *)
(*  - Python lists are 0-indexed, TLA+ sequences 1-indexed: the list of    *)
(*    state i is edges[i + 1]; successor ids and reward keys keep their    *)
(*    0-based Python values.                                               *)
(*  - Rewards are fixed-point numbers in thousandths (R(1, 2) is 0.5).     *)
(*  - Probabilities are in thousandths as well.                            *)
(***************************************************************************)
EXTENDS Integers, Sequences, FiniteSets, TLC

(***************************************************************************)
(* Bounds of the model.                                                    *)
(***************************************************************************)
\* largest max_steps handed to run_episode with the free environment
MaxSteps == 2
\* largest max_steps handed to run_episode with a graph environment
MaxGraphSteps == 6
\* number of factory calls in one behaviour of the registry
MaxInst == 2
\* number of caller mutations in one behaviour of the registry
MaxMut == 1

(***************************************************************************)
(* Arithmetic helpers.                                                     *)
(***************************************************************************)
\* the fixed-point value of the literal n/d
R(n, d) == (n * 1000) \div d

Abs(x) == IF x < 0 THEN -x ELSE x

Sign(x) == IF x < 0 THEN -1 ELSE IF x = 0 THEN 0 ELSE 1

RECURSIVE SqrtSearch(_, _, _)
\* largest s in lo..hi with s * s <= x  (lo * lo <= x is assumed)
SqrtSearch(x, lo, hi) ==
    IF lo >= hi THEN lo
    ELSE LET mid == (lo + hi + 1) \div 2
         IN  IF mid * mid <= x THEN SqrtSearch(x, mid, hi)
                               ELSE SqrtSearch(x, lo, mid - 1)

\* 1000 * (r ** 0.5) for r given in thousandths, rounded down; the search
\* stops at 32000, whose square still fits a 32-bit integer
Sqrt(r) == SqrtSearch(r * 1000, 0, 32 * 1000)

(***************************************************************************)
(* class GraphStructure(enum.Enum)                                         *)
(***************************************************************************)
GraphStructure ==
    { "two_step", "ring", "two_way_linear", "linear", "t_graph",
      "neighborhood", "human_a", "human_b", "t_loop", "variable_magnitude",
      "three_arm_bandit" }

(***************************************************************************)
(* The factories.  Each returns the pair (objects, edges) as a record.     *)
(***************************************************************************)
\* An entry of an inner list is either a state id, written <<id>>, or the
\* tuple (ids, probabilities), written <<ids, probabilities>>: the length
\* stands for the Python type of the entry.
IsStochastic(e) == Len(e) = 2

\* a list of lists of state ids, written as in the source
Plain(lists) ==
    [i \in DOMAIN lists |-> [j \in DOMAIN lists[i] |-> <<lists[i][j]>>]]

\* a Python dict literal given as a set of <<key, value>> pairs
Dict(pairs) ==
    [k \in {p[1] : p \in pairs} |-> (CHOOSE p \in pairs : p[1] = k)[2]]

two_step ==
    LET reward_locs == Dict({<<3, R(1, 1)>>, <<4, -R(1, 1)>>,
                             <<5, R(1, 2)>>, <<6, R(1, 2)>>})
        edges == Plain(<< <<1, 2>>, <<3, 4>>, <<5, 6>>, <<>>, <<>>, <<>>, <<>> >>)
    IN  [objects |-> [rewards |-> reward_locs], edges |-> edges]

three_arm_bandit ==
    LET reward_locs == Dict({<<1, R(1, 1)>>, <<2, R(1, 2)>>, <<3, -R(1, 2)>>})
        edges == Plain(<< <<1, 2, 3>>, <<>>, <<>>, <<>> >>)
    IN  [objects |-> [rewards |-> reward_locs], edges |-> edges]

two_way_linear ==
    LET reward_locs == Dict({<<4, R(1, 1)>>})
        edges == Plain(<< <<0, 1>>, <<0, 2>>, <<1, 3>>, <<2, 4>>, <<3, 4>> >>)
    IN  [objects |-> [rewards |-> reward_locs], edges |-> edges]

ring_dangling ==
    LET reward_locs == Dict({<<4, R(1, 1)>>})
        edges == Plain(<< <<1, 5>>, <<0, 2>>, <<1, 3>>, <<2, 4>>, <<3, 5>>,
                    <<4, 6>> >>)
    IN  [objects |-> [rewards |-> reward_locs], edges |-> edges]

ring ==
    LET reward_locs == Dict({<<4, R(1, 1)>>})
        edges == Plain(<< <<1, 5>>, <<0, 2>>, <<1, 3>>, <<2, 4>>, <<3, 5>>,
                    <<4, 0>> >>)
    IN  [objects |-> [rewards |-> reward_locs], edges |-> edges]

linear_shortcut ==
    LET reward_locs == Dict({<<5, R(1, 1)>>})
        edges == Plain(<< <<1>>, <<2>>, <<3>>, <<5>>, <<5>>, <<>> >>)
    IN  [objects |-> [rewards |-> reward_locs], edges |-> edges]

linear ==
    LET reward_locs == Dict({<<5, R(1, 1)>>})
        edges == Plain(<< <<1>>, <<2>>, <<3>>, <<4>>, <<5>>, <<>> >>)
    IN  [objects |-> [rewards |-> reward_locs], edges |-> edges]

t_graph ==
    LET reward_locs == Dict({<<5, R(1, 1)>>})
        edges == Plain(<< <<1, 0>>, <<2, 1>>, <<3, 4>>, <<5, 3>>, <<6, 4>>,
                    <<>>, <<>> >>)
    IN  [objects |-> [rewards |-> reward_locs], edges |-> edges]

neighborhood ==
    LET reward_locs == Dict({<<14, R(1, 1)>>})
        edges == Plain(<< <<1, 2, 3, 4>>,
                    <<0, 2, 3, 4>>,
                    <<5, 1, 0, 4>>,
                    <<10, 4, 0, 1>>,
                    <<0, 1, 2, 3>>,
                    <<2, 6, 8, 9>>,
                    <<5, 8, 7, 9>>,
                    <<5, 9, 6, 8>>,
                    <<7, 6, 5, 9>>,
                    <<6, 7, 8, 11>>,
                    <<3, 12, 13, 14>>,
                    <<9, 12, 13, 14>>,
                    <<10, 11, 13, 14>>,
                    <<11, 10, 12, 14>>,
                    <<10, 12, 11, 13>> >>)
    IN  [objects |-> [rewards |-> reward_locs], edges |-> edges]

human_a ==
    LET reward_locs == Dict({<<4, R(10, 1)>>, <<5, R(1, 1)>>})
        edges == Plain(<< <<2>>, <<3>>, <<4>>, <<5>>, <<>>, <<>> >>)
    IN  [objects |-> [rewards |-> reward_locs], edges |-> edges]

human_b ==
    LET reward_locs == Dict({<<3, R(15, 1)>>, <<5, R(30, 1)>>})
        edges == Plain(<< <<1, 2>>, <<3, 4>>, <<4, 5>>, <<3, 3>>, <<4, 4>>,
                    <<5, 5>> >>)
    IN  [objects |-> [rewards |-> reward_locs], edges |-> edges]

t_loop ==
    LET reward_locs == Dict({<<12, R(1, 1)>>, <<11, R(1, 1)>>})
        edges == Plain(<< <<1, 0>>,
                    <<2, 1>>,
                    <<3, 4>>,
                    <<5, 3>>,
                    <<6, 4>>,
                    <<7, 5>>,
                    <<8, 6>>,
                    <<9, 7>>,
                    <<10, 8>>,
                    <<11, 9>>,
                    <<12, 10>>,
                    <<0, 11>>,
                    <<0, 12>> >>)
    IN  [objects |-> [rewards |-> reward_locs], edges |-> edges]

fmax == 10

sigma == 200

\* utility_func = lambda r: (fmax * sign(r) * |r| ** 0.5) / (|r| ** 0.5 + sigma ** 0.5)
\* r and the result are in thousandths
utility_func(r) ==
    (1000 * fmax * Sign(r) * Sqrt(Abs(r))) \div (Sqrt(Abs(r)) + Sqrt(R(sigma, 1)))

variable_magnitude ==
    LET reward_locs == Dict({<<1, utility_func(R(1, 10))>>,
                             <<2, utility_func(R(3, 10))>>,
                             <<3, utility_func(R(12, 10))>>,
                             <<4, utility_func(R(25, 10))>>,
                             <<5, utility_func(R(5, 1))>>,
                             <<6, utility_func(R(10, 1))>>,
                             <<7, utility_func(R(20, 1))>>})
        edges == << << << <<1, 2, 3, 4, 5, 6, 7>>,
                          <<67, 90, 148, 154, 313, 151, 77>> >> >>,
                    <<>>, <<>>, <<>>, <<>>, <<>>, <<>>, <<>> >>
    IN  [objects |-> [rewards |-> reward_locs], edges |-> edges]

\* the module-level function of the given name, called
Call(name) ==
    CASE name = "two_step" -> two_step
      [] name = "three_arm_bandit" -> three_arm_bandit
      [] name = "two_way_linear" -> two_way_linear
      [] name = "ring" -> ring
      [] name = "linear" -> linear
      [] name = "t_graph" -> t_graph
      [] name = "neighborhood" -> neighborhood
      [] name = "human_a" -> human_a
      [] name = "human_b" -> human_b
      [] name = "t_loop" -> t_loop
      [] name = "variable_magnitude" -> variable_magnitude

structure_map_swapped ==
    [ two_step |-> "two_step",
      two_way_linear |-> "two_way_linear",
      ring |-> "linear",
      linear |-> "ring",
      t_graph |-> "t_graph",
      neighborhood |-> "neighborhood",
      human_a |-> "human_a",
      human_b |-> "human_b",
      t_loop |-> "t_loop",
      variable_magnitude |-> "variable_magnitude",
      three_arm_bandit |-> "three_arm_bandit" ]

\* structure_map: enum member |-> name of its factory
structure_map ==
    [ two_step |-> "two_step",
      two_way_linear |-> "two_way_linear",
      ring |-> "ring",
      linear |-> "linear",
      t_graph |-> "t_graph",
      neighborhood |-> "neighborhood",
      human_a |-> "human_a",
      human_b |-> "human_b",
      t_loop |-> "t_loop",
      variable_magnitude |-> "variable_magnitude",
      three_arm_bandit |-> "three_arm_bandit" ]

(***************************************************************************)
(* State.                                                                  *)
(***************************************************************************)
VARIABLES
    \* --- registry and its callers ---
    key,            \* the value the caller looks up in structure_map
    heap,           \* the Python objects allocated so far, by address
    results,        \* the (objects, edges) pairs returned so far (addresses)
    touched,        \* indices of the results a caller has mutated
    error,          \* the exception the last lookup raised, or "none"
    ncalls,         \* number of lookups made
    nmut,           \* number of mutations made
    \* --- run_episode ---
    pc,             \* position in run_episode
    max_steps, update_agent, collect_states,     \* arguments
    envKind,        \* "free": any environment; "graph": a graph environment
    agent_pos,      \* the graph environment's position
    obs, act, obs_new, reward, done,             \* locals
    steps, episode_return, states, underscore,   \* locals
    returned,       \* the returned tuple
    agentLearned,   \* the agent's learning state
    sampleLog,      \* the sample_action calls made: [obs, act]
    stepLog,        \* the env.step calls made: [act, obs, reward, done]
    updateLog,      \* the transitions handed to agent.update
    resetObs,       \* the observation env.reset returned
    calls           \* the names of the collaborator calls, in order

topoVars == <<key, heap, results, touched, error, ncalls, nmut>>

episodeVars ==
    <<pc, max_steps, update_agent, collect_states, envKind, agent_pos, obs,
      act, obs_new, reward, done, steps, episode_return, states, underscore,
      returned, agentLearned, sampleLog, stepLog, updateLog, resetObs, calls>>

vars == <<topoVars, episodeVars>>

(***************************************************************************)
(* The registry: lookup, call, and what callers do with the result.        *)
(***************************************************************************)
\* values a caller may look up: the enum members and two hashable values
\* that are not members
Keys == GraphStructure \cup {"grid", "LINEAR"}

\* the objects one factory call creates, laid out after the n existing
\* ones: the inner lists, the edges list, the rewards dict, the objects dict
NewObjects(n, T) ==
    LET N == Len(T.edges)
    IN  [i \in 1..(N + 3) |->
            IF i <= N THEN T.edges[i]
            ELSE IF i = N + 1 THEN [j \in 1..N |-> n + j]
            ELSE IF i = N + 2 THEN T.objects.rewards
            ELSE [rewards |-> n + N + 2]]

AllocateShared(h, T) ==
    LET N == Len(T.edges)
    IN  IF h = <<>>
        THEN [heap |-> NewObjects(0, T),
              ref |-> [objects |-> N + 3, edges |-> N + 1]]
        ELSE [heap |-> h, ref |-> [objects |-> N + 3, edges |-> N + 1]]

\* a factory call evaluates its literals: every list and dict is a new object
Allocate(h, T) ==
    LET N == Len(T.edges)
        n == Len(h)
    IN  [heap |-> h \o NewObjects(n, T),
         ref |-> [objects |-> n + N + 3, edges |-> n + N + 1]]

\* the value a returned pair denotes in heap h
Deref(h, ref) ==
    [objects |-> [rewards |-> h[h[ref.objects].rewards]],
     edges |-> [i \in 1..Len(h[ref.edges]) |-> h[h[ref.edges][i]]]]

\* structure_map[key]()
Instantiate ==
    /\ ncalls < MaxInst
    /\ ncalls' = ncalls + 1
    /\ IF key \in DOMAIN structure_map
       THEN LET a == Allocate(heap, Call(structure_map[key]))
            IN  /\ heap' = a.heap
                /\ results' = Append(results, a.ref)
                /\ error' = "none"
       ELSE /\ error' = "KeyError"
            /\ UNCHANGED <<heap, results>>
    /\ UNCHANGED <<key, touched, nmut>>
    /\ UNCHANGED episodeVars

\* a caller's edges[i].append(0) on the r-th result
MutateInnerList ==
    \E r \in 1..Len(results) :
      \E i \in 1..Len(heap[results[r].edges]) :
        LET a == heap[results[r].edges][i]
        IN  /\ nmut < MaxMut
            /\ heap' = [heap EXCEPT ![a] = Append(@, <<0>>)]
            /\ touched' = touched \cup {r}
            /\ nmut' = nmut + 1
            /\ UNCHANGED <<key, results, error, ncalls>>
            /\ UNCHANGED episodeVars

\* a caller's edges[i] = [] on the r-th result
MutateEdgesList ==
    \E r \in 1..Len(results) :
      \E i \in 1..Len(heap[results[r].edges]) :
        /\ nmut < MaxMut
        /\ heap' = Append([heap EXCEPT ![results[r].edges][i] = Len(heap) + 1],
                          <<>>)
        /\ touched' = touched \cup {r}
        /\ nmut' = nmut + 1
        /\ UNCHANGED <<key, results, error, ncalls>>
        /\ UNCHANGED episodeVars

\* a caller's objects["rewards"][k] = 0 on the r-th result
MutateRewards ==
    \E r \in 1..Len(results) :
      \E k \in 0..(Len(heap[results[r].edges]) - 1) :
        LET a == heap[results[r].objects].rewards
        IN  /\ nmut < MaxMut
            /\ heap' = [heap EXCEPT ![a] =
                          [j \in (DOMAIN @) \cup {k} |-> IF j = k THEN 0 ELSE @[j]]]
            /\ touched' = touched \cup {r}
            /\ nmut' = nmut + 1
            /\ UNCHANGED <<key, results, error, ncalls>>
            /\ UNCHANGED episodeVars

EpisodeIdle ==
    /\ pc = "idle"
    /\ max_steps = 0 /\ update_agent = FALSE /\ collect_states = FALSE
    /\ envKind = "free" /\ agent_pos = 0
    /\ obs = 0 /\ act = 0 /\ obs_new = 0 /\ reward = 0 /\ done = FALSE
    /\ steps = 0 /\ episode_return = 0 /\ states = <<>> /\ underscore = 0
    /\ returned = <<>> /\ agentLearned = <<>>
    /\ sampleLog = <<>> /\ stepLog = <<>> /\ updateLog = <<>>
    /\ resetObs = 0 /\ calls = <<>>

TopoInit ==
    /\ key \in Keys
    /\ heap = <<>>
    /\ results = <<>>
    /\ touched = {}
    /\ error = "none"
    /\ ncalls = 0
    /\ nmut = 0
    /\ EpisodeIdle

TopoNext ==
    \/ Instantiate
    \/ MutateInnerList
    \/ MutateEdgesList
    \/ MutateRewards

TopoSpec == TopoInit /\ [][TopoNext]_vars

(***************************************************************************)
(* The collaborators of run_episode.                                       *)
(***************************************************************************)
\* observations, actions and rewards of the free environment and agent
Observations == {0, 1}

Actions == {0, 1}

Rewards == {-R(1, 2), R(1, 1)}

\* values agent.update may return
UpdateReturns == {0, 1}

\* the agent object handed to run_episode
AgentRef == "agent"

\* the topology a graph environment was built from
EnvTopology == Deref(heap, results[1])

\* the successors a graph environment may move to from pos under action a
Successors(T, pos, a) ==
    LET e == T.edges[pos + 1][a + 1]
    IN  IF IsStochastic(e)
        THEN {e[1][j] : j \in {i \in 1..Len(e[1]) : e[2][i] > 0}}
        ELSE {e[1]}

\* what env.step(a) of a graph environment at pos may return; a state
\* without edges is absorbing
GraphStep(T, pos, a) ==
    IF Len(T.edges[pos + 1]) = 0
    THEN {[obs |-> pos, reward |-> 0, done |-> TRUE]}
    ELSE
    {[obs |-> nxt,
      reward |-> IF nxt \in DOMAIN T.objects.rewards
                 THEN T.objects.rewards[nxt] ELSE 0,
      done |-> Len(T.edges[nxt + 1]) = 0] : nxt \in Successors(T, pos, a)}

\* what env.step(a) may return
EnvStepOutcomes(a) ==
    IF envKind = "graph"
    THEN GraphStep(EnvTopology, agent_pos, a)
    ELSE [obs : Observations, reward : Rewards, done : BOOLEAN]

\* what env.reset may return
EnvResetOutcomes == IF envKind = "graph" THEN {0} ELSE Observations

\* what agent.sample_action(o) may return; on a graph the agent is the
\* fixed one that always takes the first edge
AgentActions(o) == IF envKind = "graph" THEN {0} ELSE Actions

\* the effect of agent.update(transition) on the agent's learning state
AgentUpdateEffect(q, transition) == Append(q, transition)

(***************************************************************************)
(* run_episode, one action per collaborator call or block of statements.   *)
(***************************************************************************)
\* obs = env.reset(...)
EnvReset ==
    /\ pc = "reset"
    /\ \E o \in EnvResetOutcomes :
         /\ obs' = o
         /\ resetObs' = o
         /\ agent_pos' = o
    /\ calls' = Append(calls, "env.reset")
    /\ pc' = "agent_reset"
    /\ UNCHANGED <<max_steps, update_agent, collect_states, envKind, act,
                   obs_new, reward, done, steps, episode_return, states,
                   underscore, returned, agentLearned, sampleLog, stepLog,
                   updateLog>>
    /\ UNCHANGED topoVars

\* agent.reset(); steps = 0; episode_return = 0; done = False; states = []
AgentReset ==
    /\ pc = "agent_reset"
    /\ calls' = Append(calls, "agent.reset")
    /\ steps' = 0
    /\ episode_return' = 0
    /\ done' = FALSE
    /\ states' = IF collect_states THEN <<>> ELSE states
    /\ pc' = "loop"
    /\ UNCHANGED <<max_steps, update_agent, collect_states, envKind,
                   agent_pos, obs, act, obs_new, reward, underscore, returned,
                   agentLearned, sampleLog, stepLog, updateLog, resetObs>>
    /\ UNCHANGED topoVars

LoopTestIgnoreDone ==
    /\ pc = "loop"
    /\ pc' = IF steps < max_steps THEN "sample" ELSE "return"
    /\ UNCHANGED <<max_steps, update_agent, collect_states, envKind,
                   agent_pos, obs, act, obs_new, reward, done, steps,
                   episode_return, states, underscore, returned, agentLearned,
                   sampleLog, stepLog, updateLog, resetObs, calls>>
    /\ UNCHANGED topoVars

LoopTestOffByOne ==
    /\ pc = "loop"
    /\ pc' = IF ~done /\ steps <= max_steps THEN "sample" ELSE "return"
    /\ UNCHANGED <<max_steps, update_agent, collect_states, envKind,
                   agent_pos, obs, act, obs_new, reward, done, steps,
                   episode_return, states, underscore, returned, agentLearned,
                   sampleLog, stepLog, updateLog, resetObs, calls>>
    /\ UNCHANGED topoVars

\* while not done and steps < max_steps
LoopTest ==
    /\ pc = "loop"
    /\ pc' = IF ~done /\ steps < max_steps THEN "sample" ELSE "return"
    /\ UNCHANGED <<max_steps, update_agent, collect_states, envKind,
                   agent_pos, obs, act, obs_new, reward, done, steps,
                   episode_return, states, underscore, returned, agentLearned,
                   sampleLog, stepLog, updateLog, resetObs, calls>>
    /\ UNCHANGED topoVars

\* act = agent.sample_action(obs)
SampleAction ==
    /\ pc = "sample"
    /\ \E a \in AgentActions(obs) :
         /\ act' = a
         /\ sampleLog' = Append(sampleLog, [obs |-> obs, act |-> a])
    /\ calls' = Append(calls, "sample_action")
    /\ pc' = "step"
    /\ UNCHANGED <<max_steps, update_agent, collect_states, envKind,
                   agent_pos, obs, obs_new, reward, done, steps,
                   episode_return, states, underscore, returned, agentLearned,
                   stepLog, updateLog, resetObs>>
    /\ UNCHANGED topoVars

\* obs_new, reward, done, _ = env.step(act)
EnvStep ==
    /\ pc = "step"
    /\ \E o \in EnvStepOutcomes(act) :
         /\ obs_new' = o.obs
         /\ reward' = o.reward
         /\ done' = o.done
         /\ agent_pos' = o.obs
         /\ stepLog' = Append(stepLog, [act |-> act, obs |-> o.obs,
                                        reward |-> o.reward, done |-> o.done])
    /\ calls' = Append(calls, "env.step")
    /\ pc' = "update"
    /\ UNCHANGED <<max_steps, update_agent, collect_states, envKind, obs, act,
                   steps, episode_return, states, underscore, returned,
                   agentLearned, sampleLog, updateLog, resetObs>>
    /\ UNCHANGED topoVars

UpdateStale ==
    /\ pc = "update"
    /\ IF update_agent
       THEN \E ret \in UpdateReturns :
              LET transition == <<obs_new, act, obs_new, reward, done>>
              IN  /\ underscore' = ret
                  /\ agentLearned' = AgentUpdateEffect(agentLearned, transition)
                  /\ updateLog' = Append(updateLog, transition)
                  /\ calls' = Append(calls, "update")
       ELSE UNCHANGED <<underscore, agentLearned, updateLog, calls>>
    /\ pc' = "collect"
    /\ UNCHANGED <<max_steps, update_agent, collect_states, envKind,
                   agent_pos, obs, act, obs_new, reward, done, steps,
                   episode_return, states, returned, sampleLog, stepLog,
                   resetObs>>
    /\ UNCHANGED topoVars

UpdateAlways ==
    /\ pc = "update"
    /\ \E ret \in UpdateReturns :
         LET transition == <<obs, act, obs_new, reward, done>>
         IN  /\ underscore' = ret
             /\ agentLearned' = AgentUpdateEffect(agentLearned, transition)
             /\ updateLog' = Append(updateLog, transition)
             /\ calls' = Append(calls, "update")
    /\ pc' = "collect"
    /\ UNCHANGED <<max_steps, update_agent, collect_states, envKind,
                   agent_pos, obs, act, obs_new, reward, done, steps,
                   episode_return, states, returned, sampleLog, stepLog,
                   resetObs>>
    /\ UNCHANGED topoVars

\* if update_agent: _ = agent.update([obs, act, obs_new, reward, done])
Update ==
    /\ pc = "update"
    /\ IF update_agent
       THEN \E ret \in UpdateReturns :
              LET transition == <<obs, act, obs_new, reward, done>>
              IN  /\ underscore' = ret
                  /\ agentLearned' = AgentUpdateEffect(agentLearned, transition)
                  /\ updateLog' = Append(updateLog, transition)
                  /\ calls' = Append(calls, "update")
       ELSE UNCHANGED <<underscore, agentLearned, updateLog, calls>>
    /\ pc' = "collect"
    /\ UNCHANGED <<max_steps, update_agent, collect_states, envKind,
                   agent_pos, obs, act, obs_new, reward, done, steps,
                   episode_return, states, returned, sampleLog, stepLog,
                   resetObs>>
    /\ UNCHANGED topoVars

CollectNew ==
    /\ pc = "collect"
    /\ states' = IF collect_states THEN Append(states, obs_new) ELSE states
    /\ obs' = obs_new
    /\ steps' = steps + 1
    /\ episode_return' = episode_return + reward
    /\ pc' = "loop"
    /\ UNCHANGED <<max_steps, update_agent, collect_states, envKind,
                   agent_pos, act, obs_new, reward, done, underscore, returned,
                   agentLearned, sampleLog, stepLog, updateLog, resetObs,
                   calls>>
    /\ UNCHANGED topoVars

\* if collect_states: states.append(obs)
\* obs = obs_new; steps += 1; episode_return += reward
Collect ==
    /\ pc = "collect"
    /\ states' = IF collect_states THEN Append(states, obs) ELSE states
    /\ obs' = obs_new
    /\ steps' = steps + 1
    /\ episode_return' = episode_return + reward
    /\ pc' = "loop"
    /\ UNCHANGED <<max_steps, update_agent, collect_states, envKind,
                   agent_pos, act, obs_new, reward, done, underscore, returned,
                   agentLearned, sampleLog, stepLog, updateLog, resetObs,
                   calls>>
    /\ UNCHANGED topoVars

\* return agent, steps, episode_return[, states]
Return ==
    /\ pc = "return"
    /\ returned' = IF collect_states
                   THEN <<AgentRef, steps, episode_return, states>>
                   ELSE <<AgentRef, steps, episode_return>>
    /\ pc' = "done"
    /\ UNCHANGED <<max_steps, update_agent, collect_states, envKind,
                   agent_pos, obs, act, obs_new, reward, done, steps,
                   episode_return, states, underscore, agentLearned,
                   sampleLog, stepLog, updateLog, resetObs, calls>>
    /\ UNCHANGED topoVars

\* the state at the call of run_episode: the arguments are chosen, the
\* locals are not bound yet, and a graph environment holds the topology
\* the registry produced for it
Init ==
    /\ envKind \in {"free", "graph"}
    /\ update_agent \in BOOLEAN
    /\ collect_states \in BOOLEAN
    /\ max_steps \in 0..(IF envKind = "graph" THEN MaxGraphSteps ELSE MaxSteps)
    /\ IF envKind = "graph"
       THEN /\ key \in GraphStructure
            /\ LET a == Allocate(<<>>, Call(structure_map[key]))
               IN  /\ heap = a.heap
                   /\ results = <<a.ref>>
            /\ ncalls = 1
       ELSE /\ key = "linear"
            /\ heap = <<>>
            /\ results = <<>>
            /\ ncalls = 0
    /\ touched = {}
    /\ error = "none"
    /\ nmut = 0
    /\ pc = "reset"
    /\ agent_pos = 0
    /\ obs = 0 /\ act = 0 /\ obs_new = 0 /\ reward = 0 /\ done = FALSE
    /\ steps = 0 /\ episode_return = 0 /\ states = <<>> /\ underscore = 0
    /\ returned = <<>> /\ agentLearned = <<>>
    /\ sampleLog = <<>> /\ stepLog = <<>> /\ updateLog = <<>>
    /\ resetObs = 0 /\ calls = <<>>

Next ==
    \/ EnvReset
    \/ AgentReset
    \/ LoopTest
    \/ SampleAction
    \/ EnvStep
    \/ Update
    \/ Collect
    \/ Return

Spec == Init /\ [][Next]_vars

\* run_episode is one synchronous call: while it has a statement left to
\* execute and the collaborator it calls returns, it executes it
FairSpec == Spec /\ WF_vars(Next)

(***************************************************************************)
(* Properties of the registry, checked under TopoSpec.                     *)
(***************************************************************************)
\* the results no caller has mutated
Untouched == {r \in 1..Len(results) : r \notin touched}

\* the state ids of a topology
StateIds(T) == 0..(Len(T.edges) - 1)

\* every id an entry refers to is a state, and a stochastic entry pairs
\* each id with one probability
EntryValid(T, e) ==
    IF IsStochastic(e)
    THEN /\ Len(e[1]) = Len(e[2])
         /\ \A j \in 1..Len(e[1]) : e[1][j] \in StateIds(T)
    ELSE e[1] \in StateIds(T)

NoDanglingReference(T) ==
    /\ \A i \in 1..Len(T.edges) :
         \A j \in 1..Len(T.edges[i]) : EntryValid(T, T.edges[i][j])
    /\ \A k \in DOMAIN T.objects.rewards : k \in StateIds(T)

\* C5: for every topology id, the pair its factory returns refers to
\* existing states only: every successor id of every edges[i] (for the
\* stochastic entry of variable_magnitude every id of its id list, which is
\* as long as its probability list) and every key of objects["rewards"] is
\* an index of edges.
C5_NoDanglingReferences ==
    \A r \in Untouched : NoDanglingReference(Deref(heap, results[r]))

C5_Witness ==
    /\ key = "variable_magnitude"
    /\ Len(results) = 2
    /\ touched = {}
    /\ IsStochastic(Deref(heap, results[2]).edges[1][1])

\* C6: two results of the same id are equal and own their objects: whatever
\* a caller did to one result's edges or rewards, every other result, made
\* before or after, still denotes the factory's table.
C6_IndependentResults ==
    \A r \in Untouched : Deref(heap, results[r]) = Call(structure_map[key])

C6_Witness ==
    /\ Len(results) = 2
    /\ touched = {1}
    /\ nmut > 0
    /\ Deref(heap, results[1]) # Call(structure_map[key])

\* what C7 says of the lookup, for the exception named exc
RegistryContract(exc) ==
    /\ DOMAIN structure_map = GraphStructure
    /\ (key \in GraphStructure /\ ncalls > 0) =>
          /\ error = "none"
          /\ Len(results) = ncalls
          /\ \A r \in Untouched : Deref(heap, results[r]) = Call(key)
    /\ (key \notin GraphStructure /\ ncalls > 0) =>
          /\ error = exc
          /\ results = <<>>
          /\ heap = <<>>

\* C7 (as stated): the registry is defined for exactly the eleven enum
\* members, each mapped to its own factory, and a lookup of any other value
\* fails with UnknownTopologyError and yields nothing.
C7_Original == RegistryContract("UnknownTopologyError")

\* C7 (amended): the same, but the failure of a lookup of a (hashable)
\* non-member is the KeyError of the dict structure_map.
C7_RegistryLookup == RegistryContract("KeyError")

C7_Witness ==
    /\ key \notin GraphStructure
    /\ ncalls > 0
    /\ error = "KeyError"

(***************************************************************************)
(* Properties of run_episode, checked under Spec and FairSpec.             *)
(***************************************************************************)
\* the env.step calls that returned done=True
DoneCalls == {i \in 1..Len(stepLog) : stepLog[i].done}

\* d: the first env.step call that returned done=True
FirstDone == CHOOSE i \in DoneCalls : \A j \in DoneCalls : i <= j

Min(a, b) == IF a <= b THEN a ELSE b

\* min(d, max_steps), d infinite when no call returned done=True
ExpectedSteps ==
    IF DoneCalls = {} THEN max_steps ELSE Min(FirstDone, max_steps)

RECURSIVE SumRewards(_)
SumRewards(log) ==
    IF log = <<>> THEN 0 ELSE log[1].reward + SumRewards(Tail(log))

Occurrences(name) == {j \in 1..Len(calls) : calls[j] = name}

C1_Safety ==
    /\ steps <= max_steps
    /\ \A i \in DoneCalls : i = Len(stepLog) /\ Len(sampleLog) = i
    /\ pc = "done" =>
          /\ returned[2] = ExpectedSteps
          /\ Len(stepLog) = returned[2]
          /\ Len(sampleLog) = returned[2]

\* C1: run_episode terminates, and returns steps = min(d, max_steps) where
\* d is the first env.step call that returned done=True: steps never
\* exceeds max_steps, no sample_action or env.step call follows a call that
\* returned done=True, and an exhausted budget is a normal return.
C1_Termination == []C1_Safety /\ <>(pc = "done")

C1_Witness ==
    /\ pc = "done"
    /\ max_steps > 1
    /\ DoneCalls = {}
    /\ returned[2] = max_steps

\* a topology without stochastic entries
Deterministic(T) ==
    \A i \in 1..Len(T.edges) :
      \A j \in 1..Len(T.edges[i]) : ~IsStochastic(T.edges[i][j])

RECURSIVE StepsToTerminal(_, _, _)
\* the number of steps the first-edge agent needs from pos to a state
\* without edges, or -1 when it needs more than fuel
StepsToTerminal(T, pos, fuel) ==
    IF Len(T.edges[pos + 1]) = 0 THEN 0
    ELSE IF fuel = 0 THEN -1
    ELSE LET rest == StepsToTerminal(T, T.edges[pos + 1][1][1], fuel - 1)
         IN  IF rest = -1 THEN -1 ELSE rest + 1

\* C2: when the k-th env.step call is the first to return done=True and
\* k < max_steps, run_episode returns steps = k and a trace of length k,
\* and made no further call; on a deterministic graph whose first-edge
\* path from state 0 ends after k < max_steps steps, k is what is returned.
C2_TerminalAfterK ==
    pc = "done" =>
      /\ \A k \in 1..Len(stepLog) :
           (k < max_steps /\ stepLog[k].done
              /\ \A j \in 1..(k - 1) : ~stepLog[j].done) =>
             /\ returned[2] = k
             /\ Len(stepLog) = k
             /\ collect_states => Len(returned[4]) = k
      /\ (envKind = "graph" /\ Deterministic(EnvTopology)) =>
           LET k == StepsToTerminal(EnvTopology, 0, max_steps)
           IN  (k >= 1 /\ k < max_steps) =>
                 /\ returned[2] = k
                 /\ stepLog[k].done
                 /\ \A j \in 1..(k - 1) : ~stepLog[j].done
                 /\ collect_states => Len(returned[4]) = k

C2_Witness ==
    /\ pc = "done"
    /\ envKind = "graph"
    /\ key = "t_graph"
    /\ collect_states
    /\ max_steps > 4
    /\ returned[2] = 4
    /\ done

\* C3: with max_steps = 0 the loop body is never entered: no call of
\* sample_action, env.step or update is made, and the result is steps = 0,
\* episode_return = 0 and, when collecting, an empty trace.
C3_ZeroBudget ==
    max_steps = 0 =>
      /\ sampleLog = <<>> /\ stepLog = <<>> /\ updateLog = <<>>
      /\ Occurrences("sample_action") = {}
      /\ Occurrences("env.step") = {}
      /\ Occurrences("update") = {}
      /\ pc \notin {"sample", "step", "update", "collect"}
      /\ pc = "done" =>
           /\ returned[2] = 0
           /\ returned[3] = 0
           /\ collect_states => returned[4] = <<>>

C3_Witness ==
    /\ pc = "done"
    /\ max_steps = 0
    /\ collect_states
    /\ Len(returned) = 4

\* C4: with update_agent = False, agent.update is never called and the
\* agent's learning state stays what it was at the call.
C4_NoUpdate ==
    ~update_agent =>
      /\ updateLog = <<>>
      /\ Occurrences("update") = {}
      /\ agentLearned = <<>>

C4_Witness ==
    /\ pc = "done"
    /\ ~update_agent
    /\ returned[2] > 1

\* C8: linear has the 6 states 0..5, edges [[1],[2],[3],[4],[5],[]] and
\* reward {5: 1}; from state 0 with the first-edge agent and max_steps > 5
\* the rollout is at state 5 after exactly 5 steps, not before, and
\* episode_return is 1, the sum of the rewards env.step returned.
C8_LinearRollout ==
    (envKind = "graph" /\ key = "linear") =>
      /\ Len(EnvTopology.edges) = 6
      /\ EnvTopology.edges
           = Plain(<< <<1>>, <<2>>, <<3>>, <<4>>, <<5>>, <<>> >>)
      /\ EnvTopology.objects.rewards = Dict({<<5, R(1, 1)>>})
      /\ (pc = "done" /\ max_steps > 5) =>
           /\ returned[2] = 5
           /\ agent_pos = 5
           /\ \A i \in 1..4 : stepLog[i].obs # 5
           /\ stepLog[5].obs = 5
           /\ returned[3] = R(1, 1)
           /\ returned[3] = SumRewards(stepLog)

C8_Witness ==
    /\ envKind = "graph"
    /\ key = "linear"
    /\ pc = "done"
    /\ max_steps > 5
    /\ returned[2] = 5

\* C9: with update_agent = True every iteration calls agent.update once,
\* right after its env.step and before the next sample_action, with
\* (obs, act, obs_new, reward, done) where obs is what sample_action was
\* given (the reset observation first, the previous obs_new afterwards),
\* act what it returned and the rest what env.step returned; there are as
\* many update calls as steps, and steps and episode_return are determined
\* by max_steps and what env.step returned, whatever update returns.
C9_UpdateProtocol ==
    update_agent =>
      /\ \A i \in 1..Len(updateLog) :
           updateLog[i] = <<sampleLog[i].obs, sampleLog[i].act,
                            stepLog[i].obs, stepLog[i].reward,
                            stepLog[i].done>>
      /\ \A i \in 1..Len(sampleLog) :
           sampleLog[i].obs = IF i = 1 THEN resetObs ELSE stepLog[i - 1].obs
      /\ \A i \in 1..Len(stepLog) : stepLog[i].act = sampleLog[i].act
      /\ \A j \in Occurrences("update") :
           /\ calls[j - 1] = "env.step"
           /\ j < Len(calls) => calls[j + 1] = "sample_action"
      /\ \A j \in Occurrences("env.step") :
           /\ calls[j - 1] = "sample_action"
           /\ j < Len(calls) => calls[j + 1] = "update"
      /\ Cardinality(Occurrences("update")) = Len(updateLog)
      /\ pc \in {"loop", "return", "done"} => Len(updateLog) = steps
      /\ pc = "done" =>
           /\ Len(updateLog) = returned[2]
           /\ returned[2] = ExpectedSteps
           /\ returned[3] = SumRewards(stepLog)

C9_Witness ==
    /\ pc = "done"
    /\ update_agent
    /\ envKind = "free"
    /\ Len(updateLog) = 2
    /\ underscore = 1
    /\ updateLog[1][1] # updateLog[1][3]

\* C10: when collecting, the trace holds the pre-transition observations
\* in order: at the loop test it is as long as steps, it starts with the
\* reset observation, its next entries are what the env.step calls returned
\* in order, and what the last env.step call returned has no place in it;
\* the result is (agent, steps, episode_return, trace) with the agent that
\* was passed in, and (agent, steps, episode_return) when not collecting.
C10_Trace ==
    /\ collect_states =>
         /\ pc = "loop" => Len(states) = steps
         /\ Len(states) <= Len(stepLog)
         /\ \A i \in 1..Len(states) :
              states[i] = IF i = 1 THEN resetObs ELSE stepLog[i - 1].obs
         /\ pc = "done" =>
              /\ returned = <<AgentRef, steps, episode_return, states>>
              /\ Len(returned[4]) = Len(stepLog)
    /\ (~collect_states /\ pc = "done") =>
         returned = <<AgentRef, steps, episode_return>>

C10_Witness ==
    /\ pc = "done"
    /\ collect_states
    /\ envKind = "free"
    /\ done
    /\ Len(returned[4]) = 2
    /\ returned[4][2] # stepLog[2].obs

====
